---- MODULE Spec2Model ----
(***************************************************************************)
(* The propagators of propagators.py (prop_BT, prop_FC, prop_GAC) run on   *)
(* a CSP of cspbase Variables and Constraints, together with the search    *)
(* driver that assigns variables, calls a propagator and restores the      *)
(* prunings it returns.                                                    *)
(***************************************************************************)
EXTENDS Integers, Sequences, FiniteSets, TLC

\* ------------------------------------------------------------------ bounds
NumVars == 2      \* variables of the generic CSPs
DomSize == 2      \* every generic variable has the domain [1, .., DomSize]
MaxCons == 2      \* constraints of a generic CSP
MaxCalls == 2     \* propagator calls in one behaviour
MaxBoard == 3     \* board sizes 1..MaxBoard of the grid models

None == 0         \* Python's None: no variable id and no value is 0

VARIABLES
    dom,            \* Variable.dom: variable -> list of its values
    scope,          \* Constraint.scope: constraint -> list of variables
    sat_tuples,     \* Constraint.sat_tuples: constraint -> set of tuples
    cons,           \* CSP.cons: the CSP's list of constraints
    vars_to_cons,   \* CSP.vars_to_cons: variable -> list of constraints
    curdom,         \* Variable.curdom: variable -> list of flags
    assignedValue,  \* Variable.assignedValue: variable -> value or None
    lastVar,        \* the driver's most recently assigned variable
    calls,          \* propagator calls made and not restored so far
    pc,             \* position of the running call; "idle", "ret", "restored"
    prop,           \* the propagator called: "BT", "FC", "GAC"
    argVar,         \* the newVar argument of the call
    frame,          \* the local variables of the running call
    ret_ok,         \* first component of the returned pair
    ret_pruned,     \* second component of the returned pair
    pruneLog,       \* every prune_value executed in the call, in order
    fcLog,          \* every fccheck invoked in the call, in order
    startCurdom,    \* curdom when the call started
    startAssigned,  \* assignedValue when the call started
    prevCall        \* the call with the same argument that returned right
                    \* before this one started, or was restored right before

vars == <<dom, scope, sat_tuples, cons, vars_to_cons, curdom, assignedValue,
          lastVar, calls, pc, prop, argVar, frame, ret_ok,
          ret_pruned, pruneLog, fcLog, startCurdom, startAssigned, prevCall>>

cspVars == <<dom, scope, sat_tuples, vars_to_cons>>

\* ------------------------------------------------------- sequence helpers
Range(s) == {s[i] : i \in 1..Len(s)}

Reverse(s) == [i \in 1..Len(s) |-> s[Len(s) + 1 - i]]

RECURSIVE Concat(_)
Concat(ss) == IF ss = <<>> THEN <<>> ELSE Head(ss) \o Concat(Tail(ss))

\* ---------------------------------------------------- cspbase: Variable
AllVars == DOMAIN dom

value_index(v, x) == CHOOSE i \in 1..Len(dom[v]) : dom[v][i] = x

prune_value(cd, v, x) == [cd EXCEPT ![v][value_index(v, x)] = FALSE]

unprune_value(cd, v, x) == [cd EXCEPT ![v][value_index(v, x)] = TRUE]

is_assigned(asg, v) == asg[v] # None

cur_domain(cd, asg, v) ==
    IF is_assigned(asg, v)
    THEN <<asg[v]>>
    ELSE LET idx == SelectSeq([i \in 1..Len(dom[v]) |-> i], LAMBDA i : cd[v][i])
         IN  [k \in 1..Len(idx) |-> dom[v][idx[k]]]

assign(asg, v, x) == [asg EXCEPT ![v] = x]

unassign(asg, v) == [asg EXCEPT ![v] = None]

\* -------------------------------------------------- cspbase: Constraint
AllCons == 1..Len(scope)

get_scope(c) == scope[c]

check(c, vals) == vals \in sat_tuples[c]

get_unasgn_vars(asg, c) == SelectSeq(scope[c], LAMBDA v : ~is_assigned(asg, v))

get_n_unasgn(asg, c) == Len(get_unasgn_vars(asg, c))

\* vals = [var.get_assigned_value() for var in c.get_scope()]
assigned_vals(asg, c) == [i \in 1..Len(get_scope(c)) |-> asg[get_scope(c)[i]]]

\* --------------------------------------------------------- cspbase: CSP
get_all_cons == cons

get_cons_with_var(v) == vars_to_cons[v]

\* CSP.add_constraint, applied to each constraint of sc in turn
BuildIndex(vs, sc) ==
    [v \in vs |-> SelectSeq([i \in 1..Len(sc) |-> i],
                            LAMBDA c : v \in Range(sc[c]))]

\* ------------------------------------------------------ the call's locals
NoFrame ==
    [newVar |-> None, cons_iter |-> <<>>, inner_iter |-> <<>>,
     result_pruned |-> <<>>, pruned |-> <<>>, success |-> TRUE, DWO |-> FALSE,
     gac_q |-> <<>>, curr_constraint |-> None,
     vars_iter |-> <<>>, var |-> None, vals_iter |-> <<>>,
     pruned_list |-> <<>>]

NoCall ==
    [prop |-> "none", newVar |-> None, ok |-> TRUE, pruned |-> <<>>,
     restored |-> FALSE]

Resting == pc \in {"idle", "ret", "restored"}

\* ------------------------------------------------------------ prop_BT
\* bt_scan without the test "c.get_n_unasgn() == 0"
RECURSIVE bt_scan_partial(_, _)
bt_scan_partial(cs, asg) ==
    IF cs = <<>> THEN TRUE
    ELSE IF ~check(Head(cs), assigned_vals(asg, Head(cs)))
         THEN FALSE
         ELSE bt_scan_partial(Tail(cs), asg)

\* the loop of prop_BT over the constraints cs: FALSE at the first fully
\* assigned constraint whose check fails
RECURSIVE bt_scan(_, _)
bt_scan(cs, asg) ==
    IF cs = <<>> THEN TRUE
    ELSE LET c == Head(cs) IN
         IF get_n_unasgn(asg, c) = 0 /\ ~check(c, assigned_vals(asg, c))
         THEN FALSE
         ELSE bt_scan(Tail(cs), asg)

prop_BT(nv, asg) ==
    IF nv = None THEN <<TRUE, <<>> >>
    ELSE <<bt_scan(get_cons_with_var(nv), asg), <<>> >>

\* ------------------------------------------------------------ fccheck
\* fccheck_loop leaving the loop body right after prune_value, before
\* x.unassign()
RECURSIVE fccheck_loop_stray(_, _, _, _)
fccheck_loop_stray(con, x, ds, st) ==
    IF ds = <<>> THEN st
    ELSE LET d    == Head(ds)
             a1   == assign(st.asg, x, d)
             bad  == ~check(con, assigned_vals(a1, con))
             st1  == IF bad
                     THEN [st EXCEPT !.value_pruned = Append(@, d),
                                     !.curdom = prune_value(@, x, d),
                                     !.log = Append(@, <<x, d>>),
                                     !.asg = a1]
                     ELSE [st EXCEPT !.asg = unassign(a1, x)]
         IN  fccheck_loop_stray(con, x, Tail(ds), st1)

\* fccheck_loop leaving the loop after the first value it prunes
RECURSIVE fccheck_loop_break(_, _, _, _)
fccheck_loop_break(con, x, ds, st) ==
    IF ds = <<>> THEN st
    ELSE LET d    == Head(ds)
             a1   == assign(st.asg, x, d)
             bad  == ~check(con, assigned_vals(a1, con))
             st1  == IF bad
                     THEN [st EXCEPT !.value_pruned = Append(@, d),
                                     !.curdom = prune_value(@, x, d),
                                     !.log = Append(@, <<x, d>>)]
                     ELSE st
             st2  == [st1 EXCEPT !.asg = unassign(a1, x)]
         IN  IF bad THEN st2 ELSE fccheck_loop_break(con, x, Tail(ds), st2)

\* the body of "for d in x.cur_domain()" for the values ds still to try;
\* st = [curdom, asg, value_pruned, log]
RECURSIVE fccheck_loop(_, _, _, _)
fccheck_loop(con, x, ds, st) ==
    IF ds = <<>> THEN st
    ELSE LET d    == Head(ds)
             a1   == assign(st.asg, x, d)
             bad  == ~check(con, assigned_vals(a1, con))
             st1  == IF bad
                     THEN [st EXCEPT !.value_pruned = Append(@, d),
                                     !.curdom = prune_value(@, x, d),
                                     !.log = Append(@, <<x, d>>)]
                     ELSE st
             st2  == [st1 EXCEPT !.asg = unassign(a1, x)]
         IN  fccheck_loop(con, x, Tail(ds), st2)

\* fccheck trying every value of x.dom, pruned or not
fccheck_whole_domain(con, x, cd, asg, log) ==
    LET st == fccheck_loop(con, x, dom[x],
                           [curdom |-> cd, asg |-> asg,
                            value_pruned |-> <<>>, log |-> log])
    IN  [result       |-> IF TRUE \notin Range(st.curdom[x]) THEN "DWO" ELSE "OK",
         value_pruned |-> st.value_pruned,
         curdom       |-> st.curdom,
         asg          |-> st.asg,
         log          |-> st.log]

\* fccheck(con, x) run on the domains cd and the assignments asg
fccheck(con, x, cd, asg, log) ==
    LET st == fccheck_loop(con, x, cur_domain(cd, asg, x),
                           [curdom |-> cd, asg |-> asg,
                            value_pruned |-> <<>>, log |-> log])
    IN  [result       |-> IF TRUE \notin Range(st.curdom[x]) THEN "DWO" ELSE "OK",
         value_pruned |-> st.value_pruned,
         curdom       |-> st.curdom,
         asg          |-> st.asg,
         log          |-> st.log]

\* pair_up listing the values last pruned first
pair_up_reversed(x, values) ==
    [i \in 1..Len(values) |-> <<x, values[Len(values) + 1 - i]>>]

\* pair_up without the value pruned last
pair_up_short(x, values) ==
    [i \in 1..(Len(values) - 1) |-> <<x, values[i]>>]

\* result_pruned.append((unassigned_var1, pruned_value)) for each value
pair_up(x, values) == [i \in 1..Len(values) |-> <<x, values[i]>>]

\* ------------------------------------------------------------ returning
Return(ok, pr) ==
    /\ pc' = "ret"
    /\ ret_ok' = ok
    /\ ret_pruned' = pr
    /\ frame' = NoFrame

\* --------------------------------------------------- prop_BT, as a step
BtRun ==
    /\ pc = "bt"
    /\ LET r == prop_BT(argVar, assignedValue) IN Return(r[1], r[2])
    /\ UNCHANGED <<cspVars, cons, curdom, assignedValue, lastVar, calls, prop,
                   argVar, pruneLog, fcLog, startCurdom, startAssigned, prevCall>>

\* ------------------------------------- prop_FC, newVar is None (94-112)
\* "for constraint in csp.get_all_cons()": the next constraint of the scan,
\* or the return once the scan is over
FcOuter ==
    /\ pc = "fc_outer"
    /\ IF frame.cons_iter = <<>>
       THEN Return(frame.success, frame.pruned)
       ELSE LET constraint == Head(frame.cons_iter) IN
            /\ UNCHANGED <<ret_ok, ret_pruned>>
            /\ IF get_n_unasgn(assignedValue, constraint) = 1
               THEN LET nv == get_unasgn_vars(assignedValue, constraint)[1] IN
                    /\ frame' = [frame EXCEPT !.cons_iter = Tail(@),
                                              !.newVar = nv,
                                              !.DWO = FALSE,
                                              !.inner_iter = get_cons_with_var(nv)]
                    /\ pc' = "fc_inner"
               ELSE /\ frame' = [frame EXCEPT !.cons_iter = Tail(@)]
                    /\ pc' = "fc_outer"
    /\ UNCHANGED <<cspVars, cons, curdom, assignedValue, lastVar, calls, prop,
                   argVar, pruneLog, fcLog, startCurdom, startAssigned, prevCall>>

\* one round of "for constraint in csp.get_cons_with_var(newVar)" (101-109)
FcInner ==
    /\ pc = "fc_inner"
    /\ frame.inner_iter # <<>>
    /\ LET constraint == Head(frame.inner_iter) IN
       IF get_n_unasgn(assignedValue, constraint) = 1
       THEN LET unassigned_var1 == get_unasgn_vars(assignedValue, constraint)[1]
                r == fccheck(constraint, unassigned_var1, curdom,
                             assignedValue, pruneLog)
            IN  /\ curdom' = r.curdom
                /\ assignedValue' = r.asg
                /\ pruneLog' = r.log
                /\ fcLog' = Append(fcLog, <<constraint, r.result>>)
                /\ frame' = [frame EXCEPT
                       !.inner_iter = Tail(@),
                       !.result_pruned = @ \o pair_up(unassigned_var1, r.value_pruned),
                       !.DWO = IF r.result = "DWO" THEN TRUE ELSE @]
                /\ pc' = IF r.result = "DWO" THEN "fc_outer_end" ELSE "fc_inner"
       ELSE /\ frame' = [frame EXCEPT !.inner_iter = Tail(@)]
            /\ pc' = "fc_inner"
            /\ UNCHANGED <<curdom, assignedValue, pruneLog, fcLog>>
    /\ UNCHANGED <<cspVars, cons, lastVar, calls, prop, argVar, ret_ok,
                   ret_pruned, startCurdom, startAssigned, prevCall>>

\* after the inner loop, by exhaustion or by break (110-111)
FcOuterEnd ==
    /\ \/ pc = "fc_outer_end"
       \/ pc = "fc_inner" /\ frame.inner_iter = <<>>
    /\ frame' = [frame EXCEPT !.success = ~frame.DWO,
                              !.pruned = @ \o frame.result_pruned]
    /\ pc' = "fc_outer"
    /\ UNCHANGED <<cspVars, cons, curdom, assignedValue, lastVar, calls, prop,
                   argVar, ret_ok, ret_pruned, pruneLog, fcLog, startCurdom,
                   startAssigned, prevCall>>

\* ---------------------------------- prop_FC, newVar given (113-124)
\* the test of line 120 that never sees a wipeout
scan_stops_never(result) == FALSE

\* "if result == "DWO": DWO = True; break" (120-122)
scan_stops(result) == result = "DWO"

FcScan ==
    /\ pc = "fc_scan"
    /\ IF frame.inner_iter = <<>>
       THEN /\ Return(~frame.DWO, frame.result_pruned)
            /\ UNCHANGED <<curdom, assignedValue, pruneLog, fcLog>>
       ELSE LET constraint == Head(frame.inner_iter) IN
            IF get_n_unasgn(assignedValue, constraint) = 1
            THEN LET unassigned_var1 == get_unasgn_vars(assignedValue, constraint)[1]
                     r == fccheck(constraint, unassigned_var1, curdom,
                                  assignedValue, pruneLog)
                     rp == frame.result_pruned \o pair_up(unassigned_var1, r.value_pruned)
                 IN  /\ curdom' = r.curdom
                     /\ assignedValue' = r.asg
                     /\ pruneLog' = r.log
                     /\ fcLog' = Append(fcLog, <<constraint, r.result>>)
                     /\ IF scan_stops(r.result)
                        THEN Return(FALSE, rp)
                        ELSE /\ frame' = [frame EXCEPT !.inner_iter = Tail(@),
                                                       !.result_pruned = rp]
                             /\ pc' = "fc_scan"
                             /\ UNCHANGED <<ret_ok, ret_pruned>>
            ELSE /\ frame' = [frame EXCEPT !.inner_iter = Tail(@)]
                 /\ pc' = "fc_scan"
                 /\ UNCHANGED <<curdom, assignedValue, pruneLog, fcLog,
                                ret_ok, ret_pruned>>
    /\ UNCHANGED <<cspVars, cons, lastVar, calls, prop, argVar, startCurdom,
                   startAssigned, prevCall>>

\* ------------------------------------------------------------ product
\* itertools.product of the lists: the leftmost list varies slowest
RECURSIVE cartesian(_)
cartesian(lists) ==
    IF lists = <<>> THEN << <<>> >>
    ELSE LET hd   == Head(lists)
             rest == cartesian(Tail(lists))
         IN  Concat([i \in 1..Len(hd) |->
                        [j \in 1..Len(rest) |-> <<hd[i]>> \o rest[j]]])

product(unassigned_vars, cd, asg) ==
    cartesian([i \in 1..Len(unassigned_vars) |->
                  cur_domain(cd, asg, unassigned_vars[i])])

\* --------------------------------------------------------- gac_enforce
\* "for var_i in range(len(unassigned_vars))": assign, or unassign, each
RECURSIVE assign_all(_, _, _)
assign_all(asg, unassigned_vars, combo) ==
    IF unassigned_vars = <<>> THEN asg
    ELSE assign_all(assign(asg, Head(unassigned_vars), Head(combo)),
                    Tail(unassigned_vars), Tail(combo))

RECURSIVE unassign_all(_, _)
unassign_all(asg, unassigned_vars) ==
    IF unassigned_vars = <<>> THEN asg
    ELSE unassign_all(unassign(asg, Head(unassigned_vars)), Tail(unassigned_vars))

\* search_support with assgnmt_found starting out True
search_support_found(c, unassigned_vars, combos, asg) ==
    [found |-> TRUE, asg |-> asg]

\* search_support leaving the loop after the first combination
search_support_first(c, unassigned_vars, combos, asg) ==
    IF combos = <<>> THEN [found |-> FALSE, asg |-> asg]
    ELSE LET a1 == assign_all(asg, unassigned_vars, Head(combos))
         IN  [found |-> check(c, assigned_vals(a1, c)),
              asg   |-> unassign_all(a1, unassigned_vars)]

\* "for i in range(len(all_combo_with_vars))" (200-213) over the combinations
\* still to try: [found, asg] at the break or at the end of the loop
RECURSIVE search_support(_, _, _, _)
search_support(c, unassigned_vars, combos, asg) ==
    IF combos = <<>> THEN [found |-> FALSE, asg |-> asg]
    ELSE LET a1    == assign_all(asg, unassigned_vars, Head(combos))
             found == check(c, assigned_vals(a1, c))
             a2    == unassign_all(a1, unassigned_vars)
         IN  IF found THEN [found |-> TRUE, asg |-> a2]
             ELSE search_support(c, unassigned_vars, Tail(combos), a2)

\* try_value taking every value as supported, without the search
try_value_unchecked(c, var, values, cd, asg) == [found |-> TRUE, asg |-> asg]

\* lines 196-215 for one value of var: [found, asg] after unassign(var)
try_value(c, var, values, cd, asg) ==
    LET a1 == assign(asg, var, values)
        unassigned_vars == get_unasgn_vars(a1, c)
        all_combo_with_vars == product(unassigned_vars, cd, a1)
        r == search_support(c, unassigned_vars, all_combo_with_vars, a1)
    IN  [found |-> r.found, asg |-> unassign(r.asg, var)]

\* push_extra that puts nothing back on the queue
push_extra_absent(q, extra) == q

\* push_extra without the test "if extra not in gac_q"
push_extra_always(q, extra) == q \o extra

\* lines 223-226: append each constraint of extra that is not in the queue
RECURSIVE push_extra(_, _)
push_extra(q, extra) ==
    IF extra = <<>> THEN q
    ELSE push_extra(IF Head(extra) \in Range(q) THEN q ELSE Append(q, Head(extra)),
                    Tail(extra))

\* "gac_q.pop(0)" reading the front of the queue without removing it
pop_rest_kept(q) == q

\* the queue after "gac_q.pop(0)" (192)
pop_rest(q) == Tail(q)

\* the test of line 219 that never sees the empty domain
domain_wiped_never(cd, asg, var) == FALSE

\* "cspbase.Variable.cur_domain(var) == []" (219)
domain_wiped(cd, asg, var) == cur_domain(cd, asg, var) = <<>>

\* get_all_cons handing out the CSP's own list: the queue is CSP.cons
ConsAfterAliased(q) == q

\* CSP.cons once the queue of the call has become q: the queue is a list of
\* its own, get_all_cons having enumerated the constraints into it
ConsAfter(q) == cons

\* "while not len(gac_q) == 0" and "gac_q.pop(0)" (191-194)
GacLoop ==
    /\ pc = "gac_loop"
    /\ IF frame.gac_q = <<>>
       THEN /\ Return(TRUE, frame.pruned_list)
            /\ UNCHANGED cons
       ELSE /\ frame' = [frame EXCEPT
                   !.gac_q = pop_rest(@),
                   !.curr_constraint = Head(frame.gac_q),
                   !.vars_iter = get_unasgn_vars(assignedValue, Head(frame.gac_q))]
            /\ cons' = ConsAfter(pop_rest(frame.gac_q))
            /\ pc' = "gac_var"
            /\ UNCHANGED <<ret_ok, ret_pruned>>
    /\ UNCHANGED <<cspVars, curdom, assignedValue, lastVar, calls, prop, argVar,
                   pruneLog, fcLog, startCurdom, startAssigned, prevCall>>

\* "for var in curr_constraint.get_unasgn_vars()" (194-195)
GacVar ==
    /\ pc = "gac_var"
    /\ IF frame.vars_iter = <<>>
       THEN /\ frame' = [frame EXCEPT !.var = None]
            /\ pc' = "gac_loop"
       ELSE /\ frame' = [frame EXCEPT
                   !.vars_iter = Tail(@),
                   !.var = Head(frame.vars_iter),
                   !.vals_iter = cur_domain(curdom, assignedValue, Head(frame.vars_iter))]
            /\ pc' = "gac_val"
    /\ UNCHANGED <<cspVars, cons, curdom, assignedValue, lastVar, calls, prop,
                   argVar, ret_ok, ret_pruned, pruneLog, fcLog, startCurdom,
                   startAssigned, prevCall>>

\* one round of "for values in var.cur_domain()" (195-226)
GacVal ==
    /\ pc = "gac_val"
    /\ IF frame.vals_iter = <<>>
       THEN /\ pc' = "gac_var"
            /\ UNCHANGED <<frame, cons, curdom, assignedValue, pruneLog,
                           ret_ok, ret_pruned>>
       ELSE LET var    == frame.var
                values == Head(frame.vals_iter)
                r      == try_value(frame.curr_constraint, var, values,
                                    curdom, assignedValue)
                cd1    == prune_value(curdom, var, values)
                pl     == Append(frame.pruned_list, <<var, values>>)
            IN  /\ assignedValue' = r.asg
                /\ IF r.found
                   THEN /\ frame' = [frame EXCEPT !.vals_iter = Tail(@)]
                        /\ pc' = "gac_val"
                        /\ UNCHANGED <<cons, curdom, pruneLog, ret_ok, ret_pruned>>
                   ELSE /\ curdom' = cd1
                        /\ pruneLog' = Append(pruneLog, <<var, values>>)
                        /\ IF domain_wiped(cd1, r.asg, var)
                           THEN /\ Return(FALSE, pl)
                                /\ UNCHANGED cons
                           ELSE LET q == push_extra(frame.gac_q, get_cons_with_var(var))
                                IN  /\ frame' = [frame EXCEPT !.vals_iter = Tail(@),
                                                              !.pruned_list = pl,
                                                              !.gac_q = q]
                                    /\ cons' = ConsAfter(q)
                                    /\ pc' = "gac_val"
                                    /\ UNCHANGED <<ret_ok, ret_pruned>>
    /\ UNCHANGED <<cspVars, lastVar, calls, prop, argVar, fcLog, startCurdom,
                   startAssigned, prevCall>>

\* ------------------------------------------------------ the search driver
\* bt_recurse: var.assign(val) for an unassigned variable and a value of
\* its current domain
DriverAssign(v, x) ==
    /\ Resting
    /\ calls < MaxCalls
    /\ ~is_assigned(assignedValue, v)
    /\ x \in Range(cur_domain(curdom, assignedValue, v))
    /\ assignedValue' = assign(assignedValue, v, x)
    /\ lastVar' = v
    /\ pc' = "idle"
    /\ prop' = "none"
    /\ argVar' = None
    /\ ret_ok' = TRUE
    /\ ret_pruned' = <<>>
    /\ pruneLog' = <<>>
    /\ fcLog' = <<>>
    /\ startCurdom' = curdom
    /\ startAssigned' = assignedValue'
    /\ prevCall' = NoCall
    /\ UNCHANGED <<cspVars, cons, curdom, calls, frame>>

\* the locals of propagator p at its first loop, and the position of the loop
FirstFrame(p, nv) ==
    CASE p = "BT" ->
           [NoFrame EXCEPT !.newVar = nv]
      [] p = "FC" /\ nv = None ->
           [NoFrame EXCEPT !.cons_iter = get_all_cons]
      [] p = "FC" /\ nv # None ->
           [NoFrame EXCEPT !.newVar = nv, !.inner_iter = get_cons_with_var(nv)]
      [] p = "GAC" /\ nv = None ->
           [NoFrame EXCEPT !.gac_q = get_all_cons]
      [] p = "GAC" /\ nv # None ->
           [NoFrame EXCEPT !.newVar = nv, !.gac_q = get_cons_with_var(nv)]

FirstPc(p, nv) ==
    CASE p = "BT" -> "bt"
      [] p = "FC" -> IF nv = None THEN "fc_outer" ELSE "fc_scan"
      [] p = "GAC" -> "gac_loop"

\* status, prunings = propagator(csp) or propagator(csp, var)
Call(p, nv) ==
    /\ Resting
    /\ calls < MaxCalls
    /\ nv = None \/ nv = lastVar
    /\ calls' = calls + 1
    /\ prop' = p
    /\ argVar' = nv
    /\ frame' = FirstFrame(p, nv)
    /\ pc' = FirstPc(p, nv)
    /\ ret_ok' = TRUE
    /\ ret_pruned' = <<>>
    /\ pruneLog' = <<>>
    /\ fcLog' = <<>>
    /\ startCurdom' = curdom
    /\ startAssigned' = assignedValue
    /\ prevCall' = IF pc \in {"ret", "restored"} /\ nv = argVar
                   THEN [prop |-> prop, newVar |-> argVar, ok |-> ret_ok,
                         pruned |-> ret_pruned, restored |-> pc = "restored"]
                   ELSE NoCall
    /\ UNCHANGED <<cspVars, cons, curdom, assignedValue, lastVar>>

\* restoring the pairs of prunings, the last pruned first
RECURSIVE restore_values(_, _)
restore_values(cd, prunings) ==
    IF prunings = <<>> THEN cd
    ELSE restore_values(unprune_value(cd, Head(prunings)[1], Head(prunings)[2]),
                        Tail(prunings))

DriverRestore ==
    /\ pc = "ret"
    /\ curdom' = restore_values(curdom, Reverse(ret_pruned))
    /\ pc' = "restored"
    /\ calls' = calls - 1
    /\ UNCHANGED <<cspVars, cons, assignedValue, lastVar, prop, argVar,
                   frame, ret_ok, ret_pruned, pruneLog, fcLog, startCurdom,
                   startAssigned, prevCall>>

\* ------------------------------------------------------ the generic CSPs
GenVars == 1..NumVars

GenScopes ==
    {<<v>> : v \in GenVars}
      \cup {<<v, v + 1>> : v \in 1..(NumVars - 1)}
      \cup {<<v, v + 1, v + 2>> : v \in 1..(NumVars - 2)}

RelKinds == {"none", "eq", "ne", "one"}

Holds(kind, t) ==
    CASE kind = "none" -> FALSE
      [] kind = "eq"   -> \A i, j \in DOMAIN t : t[i] = t[j]
      [] kind = "ne"   -> \E i, j \in DOMAIN t : t[i] # t[j]
      [] kind = "one"  -> t[1] = 1

\* Constraint(name, scope) followed by add_satisfying_tuples
Constraint(sc, k) ==
    [scope |-> sc, sat |-> {t \in [1..Len(sc) -> 1..DomSize] : Holds(k, t)}]

GenConstraints == {Constraint(sc, k) : sc \in GenScopes, k \in RelKinds}

\* the lists of constraints of the generic CSPs: MaxCons constraints over
\* GenVars, or one constraint over one variable more followed by
\* MaxCons - 1 constraints over GenVars
WideScope == [i \in 1..(NumVars + 1) |-> i]

GenLists ==
    [1..MaxCons -> GenConstraints]
      \cup {<<Constraint(WideScope, k)>> \o rest :
               k \in RelKinds, rest \in [1..(MaxCons - 1) -> GenConstraints]}

TypeFresh(vs) ==
    /\ curdom = [v \in vs |-> [i \in 1..Len(dom[v]) |-> TRUE]]
    /\ assignedValue = [v \in vs |-> None]
    /\ lastVar = None
    /\ calls = 0
    /\ pc = "idle"
    /\ prop = "none"
    /\ argVar = None
    /\ frame = NoFrame
    /\ ret_ok = TRUE
    /\ ret_pruned = <<>>
    /\ pruneLog = <<>>
    /\ fcLog = <<>>
    /\ startCurdom = curdom
    /\ startAssigned = assignedValue
    /\ prevCall = NoCall

Init ==
    \E cs \in GenLists :
       LET vs == UNION {Range(cs[c].scope) : c \in 1..Len(cs)} IN
       /\ dom = [v \in vs |-> [i \in 1..DomSize |-> i]]
       /\ scope = [c \in 1..Len(cs) |-> cs[c].scope]
       /\ sat_tuples = [c \in 1..Len(cs) |-> cs[c].sat]
       /\ cons = [c \in 1..Len(cs) |-> c]
       /\ vars_to_cons = BuildIndex(vs, scope)
       /\ TypeFresh(vs)

Next ==
    \/ \E v \in AllVars : \E x \in Range(dom[v]) : DriverAssign(v, x)
    \/ \E p \in {"BT", "FC", "GAC"} : \E nv \in AllVars \cup {None} : Call(p, nv)
    \/ DriverRestore
    \/ BtRun
    \/ FcOuter
    \/ FcInner
    \/ FcOuterEnd
    \/ FcScan
    \/ GacLoop
    \/ GacVar
    \/ GacVal

Spec == Init /\ [][Next]_vars

\* ------------------------------------------- puzzle_csp: binary_ne_grid
\* variable_list[row][column], rows and columns counted from 0; the
\* variables are numbered in the order of variable_list_flat
cell(n, row, column) == row * n + column + 1

\* pair_distinct_pairs without "removed_l.remove(i)"
pair_distinct_pairs_all(n) ==
    Concat([i \in 1..n |-> [j \in 1..n |-> <<i, j>>]])

pair_distinct_pairs(n) ==
    Concat([i \in 1..n |->
        LET removed_l == SelectSeq([k \in 1..n |-> k], LAMBDA k : k # i)
        IN  [j \in 1..Len(removed_l) |-> <<i, removed_l[j]>>]])

\* binary_ne_scopes without the loop over further_row
binary_ne_scopes_rows(n) ==
    Concat([k \in 1..(n * n) |->
        LET vertic  == (k - 1) \div n
            horizon == (k - 1) % n
            curr_variable == cell(n, vertic, horizon)
        IN  [j \in 1..(n - 1 - horizon) |->
                <<curr_variable, cell(n, vertic, horizon + j)>>]])

\* the scopes of the constraints in the order they are appended (50-68)
binary_ne_scopes(n) ==
    Concat([k \in 1..(n * n) |->
        LET vertic  == (k - 1) \div n
            horizon == (k - 1) % n
            curr_variable == cell(n, vertic, horizon)
        IN  [j \in 1..(n - 1 - horizon) |->
                <<curr_variable, cell(n, vertic, horizon + j)>>]
            \o [j \in 1..(n - 1 - vertic) |->
                <<curr_variable, cell(n, vertic + j, horizon)>>]])

binary_ne_grid(n) ==
    LET sc == binary_ne_scopes(n) IN
    [dom   |-> [v \in 1..(n * n) |-> [i \in 1..n |-> i]],
     scope |-> sc,
     sat   |-> [c \in 1..Len(sc) |-> Range(pair_distinct_pairs(n))]]

\* the 2x2 board of binary not-equal constraints
InitGrid ==
    LET g == binary_ne_grid(2) IN
    /\ dom = g.dom
    /\ scope = g.scope
    /\ sat_tuples = g.sat
    /\ cons = [c \in 1..Len(g.scope) |-> c]
    /\ vars_to_cons = BuildIndex(DOMAIN g.dom, g.scope)
    /\ TypeFresh(DOMAIN g.dom)

SpecGrid == InitGrid /\ [][Next]_vars

\* --------------------------------------------- puzzle_csp: nary_ad_grid
\* itertools.permutations(lst): the first element varies slowest
RECURSIVE permutations(_)
permutations(lst) ==
    IF lst = <<>> THEN << <<>> >>
    ELSE Concat([i \in 1..Len(lst) |->
            LET rest == SubSeq(lst, 1, i - 1) \o SubSeq(lst, i + 1, Len(lst))
                ps   == permutations(rest)
            IN  [j \in 1..Len(ps) |-> <<lst[i]>> \o ps[j]]])

find_all_valid_options(board_length) ==
    permutations([i \in 1..board_length |-> i])

\* the variables of row "index" and of column "index", counted from 0
find_row_col_vars(n, index) ==
    [row_vars |-> [j \in 1..n |-> cell(n, index, j - 1)],
     col_vars |-> [j \in 1..n |-> cell(n, j - 1, index)]]

\* the scopes of con_row and con_col in the order they are appended (107-115)
nary_ad_scopes(n) ==
    Concat([i \in 1..n |->
        LET rc == find_row_col_vars(n, i - 1)
        IN  <<rc.row_vars, rc.col_vars>>])

nary_ad_grid(n) ==
    LET sc == nary_ad_scopes(n) IN
    [dom   |-> [v \in 1..(n * n) |-> [i \in 1..n |-> i]],
     scope |-> sc,
     sat   |-> [c \in 1..Len(sc) |-> Range(find_all_valid_options(n))]]

\* a board of either grid model, of any size up to MaxBoard
InitModels ==
    \E n \in 1..MaxBoard : \E g \in {binary_ne_grid(n), nary_ad_grid(n)} :
        /\ dom = g.dom
        /\ scope = g.scope
        /\ sat_tuples = g.sat
        /\ cons = [c \in 1..Len(g.scope) |-> c]
        /\ vars_to_cons = BuildIndex(DOMAIN g.dom, g.scope)
        /\ TypeFresh(DOMAIN g.dom)

\* the board is filled in cell by cell, in the order of the variable list
NextModels ==
    \E v \in AllVars : \E x \in Range(dom[v]) :
        /\ \A u \in 1..(v - 1) : is_assigned(assignedValue, u)
        /\ DriverAssign(v, x)

SpecModels == InitModels /\ [][NextModels]_vars

\* =========================================================== properties
Values(v) == Range(cur_domain(curdom, assignedValue, v))

Returned(p) == pc = "ret" /\ prop = p

\* value x of variable v has a support in constraint c: a satisfying tuple
\* with x at v, the assigned value at each assigned variable and a value of
\* the current domain at each other variable
HasSupport(c, v, x) ==
    \E t \in sat_tuples[c] :
       \A i \in 1..Len(scope[c]) :
          LET w == scope[c][i] IN
          IF w = v THEN t[i] = x ELSE t[i] \in Values(w)

ArcConsistent(c) ==
    \A v \in Range(get_unasgn_vars(assignedValue, c)) :
       \A x \in Values(v) : HasSupport(c, v, x)

\* the constraints the call of prop_GAC has had on its queue
EverQueued ==
    Range(IF argVar = None THEN cons ELSE vars_to_cons[argVar])
      \cup UNION {Range(vars_to_cons[pruneLog[i][1]]) : i \in 1..Len(pruneLog)}

\* C1: when prop_GAC returns True, every constraint that was on the queue
\* during the call is arc-consistent: each value of each unassigned variable
\* of its scope has a support. Called with no changed variable, these are
\* all the constraints of the CSP.
C1_GacArcConsistent ==
    (Returned("GAC") /\ ret_ok) =>
        /\ \A c \in EverQueued : ArcConsistent(c)
        /\ argVar = None => EverQueued = AllCons

\* a pre-search GAC call that returned True after pruning values of two
\* different variables
C1_Witness ==
    /\ Returned("GAC") /\ ret_ok /\ argVar = None
    /\ \E i, j \in 1..Len(ret_pruned) : ret_pruned[i][1] # ret_pruned[j][1]

\* some fccheck of the call reported a wipeout
SomeWipeout == \E i \in 1..Len(fcLog) : fcLog[i][2] = "DWO"

\* C2: the pre-search prop_FC call returns False whenever one of its
\* fccheck calls reported a domain wipeout.
C2_FcWipeoutFails ==
    (Returned("FC") /\ argVar = None /\ SomeWipeout) => ~ret_ok

\* C3: the pruned list returned by the pre-search prop_FC call is the
\* sequence of the prunings of the call, each once and in order.
C3_FcPreSearchLedger ==
    (Returned("FC") /\ argVar = None) => ret_pruned = pruneLog

\* C4: the pruned list returned by prop_GAC, and by prop_FC called with a
\* changed variable, is the sequence of the prune_value operations of the
\* call in the order executed, whether the call returns True or False.
C4_LedgerInOrder ==
    (Returned("GAC") \/ (Returned("FC") /\ argVar # None)) =>
        ret_pruned = pruneLog

\* a call that returned False after pruning at least two values
C4_Witness ==
    /\ Returned("GAC") \/ (Returned("FC") /\ argVar # None)
    /\ ~ret_ok
    /\ Len(pruneLog) >= 2

\* C5: once the caller has restored the pairs of the returned pruned list,
\* the last pruned first, every current domain is what it was when the
\* propagator was called, for each propagator, call mode and result.
C5_RestoreRoundTrip ==
    pc = "restored" => curdom = startCurdom

\* a call that returned False and whose prunings the driver then restored
C5_Witness ==
    /\ pc = "restored"
    /\ prop = "FC"
    /\ ~ret_ok
    /\ Len(ret_pruned) >= 2

\* C6: when a propagator returns, on every exit path, each variable is
\* assigned exactly as it was when the call started.
C6_NoStrayAssignment ==
    pc = "ret" => assignedValue = startAssigned

\* prop_GAC leaving by the wipeout exit while a variable is assigned
C6_Witness ==
    /\ Returned("GAC")
    /\ ~ret_ok
    /\ argVar # None
    /\ pruneLog # <<>>

AllValues == UNION {Range(dom[v]) : v \in AllVars}

\* some assignment of all variables gives v the value x, keeps the assigned
\* values, takes the other values from the current domains and satisfies
\* every constraint containing v
Extendable(v, x) ==
    \E a \in [AllVars -> AllValues] :
       /\ a[v] = x
       /\ \A w \in AllVars \ {v} : a[w] \in Values(w)
       /\ \A c \in Range(vars_to_cons[v]) :
             [i \in 1..Len(scope[c]) |-> a[scope[c][i]]] \in sat_tuples[c]

PruneSound ==
    \A v \in AllVars : \A i \in 1..Len(dom[v]) :
       (curdom[v][i] /\ ~curdom'[v][i]) => ~Extendable(v, dom[v][i])

\* the solutions of the CSP within the domains cd and the assignments asg
Solutions(cd, asg) ==
    {a \in [AllVars -> AllValues] :
        /\ \A w \in AllVars : a[w] \in Range(cur_domain(cd, asg, w))
        /\ \A c \in AllCons :
              [i \in 1..Len(scope[c]) |-> a[scope[c][i]]] \in sat_tuples[c]}

SolutionsKept ==
    (Returned("FC") \/ Returned("GAC")) =>
        Solutions(curdom, assignedValue) = Solutions(startCurdom, startAssigned)

\* C7: a value is pruned by prop_FC or prop_GAC only when no assignment
\* that gives it to its variable, extends the current assignments and stays
\* within the current domains satisfies all constraints containing the
\* variable; so the call removes no solution of the CSP.
C7_PruningSound == [][PruneSound]_vars /\ []SolutionsKept

\* prop_GAC returned True after pruning two values in a CSP that has a
\* constraint over three variables
C7_Witness ==
    /\ Returned("GAC")
    /\ ret_ok
    /\ Len(pruneLog) >= 2
    /\ \E c \in AllCons : Len(scope[c]) >= 3

SecondGac ==
    /\ Returned("GAC")
    /\ prevCall.prop = "GAC"
    /\ prevCall.newVar = argVar
    /\ ~prevCall.restored

\* C8, as stated: the second of two successive prop_GAC calls with the
\* same argument returns (True, []), in every state.
C8_Original ==
    SecondGac => (ret_ok /\ ret_pruned = <<>>)

\* C8, amended: the second of two successive prop_GAC calls with the same
\* argument returns (True, []) when the first call returned True.
C8_GacIdempotent ==
    (SecondGac /\ prevCall.ok) => (ret_ok /\ ret_pruned = <<>>)

\* the second call follows a first call that returned True after pruning
C8_Witness ==
    /\ SecondGac
    /\ prevCall.ok
    /\ \E v \in AllVars : FALSE \in Range(curdom[v])

FreshStart == \A v \in AllVars : TRUE \notin {~startCurdom[v][i] : i \in 1..Len(dom[v])}

\* the call follows the assignment of 1 to cell(0,0) on the untouched board
AfterFirstCell ==
    /\ Returned("GAC")
    /\ argVar = cell(2, 0, 0)
    /\ FreshStart
    /\ startAssigned = [v \in AllVars |-> IF v = cell(2, 0, 0) THEN 1 ELSE None]

InitialGac ==
    /\ Returned("GAC")
    /\ argVar = None
    /\ FreshStart
    /\ startAssigned = [v \in AllVars |-> None]

\* C9, as stated: on the 2x2 board the initial call returns (True, []), and
\* the call after cell(0,0) = 1 returns True with exactly (cell(0,1), 1) and
\* (cell(1,0), 1), leaving cell(1,1) with both values.
C9_Original ==
    /\ InitialGac => (ret_ok /\ ret_pruned = <<>>)
    /\ AfterFirstCell =>
          /\ ret_ok
          /\ ret_pruned = << <<cell(2, 0, 1), 1>>, <<cell(2, 1, 0), 1>> >>
          /\ curdom[cell(2, 1, 1)] = <<TRUE, TRUE>>

\* C9, amended: on the 2x2 board the initial call returns (True, []), and
\* the call after cell(0,0) = 1 returns True with (cell(0,1), 1),
\* (cell(1,0), 1) and (cell(1,1), 2), in this order, leaving cell(1,1) with
\* the value 1 only.
C9_GridScenario ==
    /\ InitialGac => (ret_ok /\ ret_pruned = <<>>)
    /\ AfterFirstCell =>
          /\ ret_ok
          /\ ret_pruned = << <<cell(2, 0, 1), 1>>, <<cell(2, 1, 0), 1>>,
                             <<cell(2, 1, 1), 2>> >>
          /\ curdom[cell(2, 1, 1)] = <<TRUE, FALSE>>

C9_Witness == AfterFirstCell /\ calls = 2

\* some fully assigned constraint containing v fails its check
ViolatedAt(v) ==
    \E c \in AllCons :
       /\ v \in Range(scope[c])
       /\ \A w \in Range(scope[c]) : assignedValue[w] # None
       /\ [i \in 1..Len(scope[c]) |-> assignedValue[scope[c][i]]] \notin sat_tuples[c]

\* C10: prop_BT changes no current domain and no assignment and returns an
\* empty pruned list; it returns False exactly when it is given a changed
\* variable and some fully assigned constraint containing that variable
\* fails its check.
C10_PlainPropagator ==
    Returned("BT") =>
        /\ curdom = startCurdom
        /\ assignedValue = startAssigned
        /\ ret_pruned = <<>>
        /\ ret_ok <=> ~(argVar # None /\ ViolatedAt(argVar))

\* prop_BT returning False although another constraint of the variable is
\* not fully assigned
C10_Witness ==
    /\ Returned("BT")
    /\ ~ret_ok
    /\ \E c \in Range(vars_to_cons[argVar]) : get_n_unasgn(assignedValue, c) > 0

\* the current domains after the first k prunings of the call
CurdomAfter(k) ==
    [v \in AllVars |->
        [i \in 1..Len(dom[v]) |->
            /\ startCurdom[v][i]
            /\ \A j \in 1..k : pruneLog[j] # <<v, dom[v][i]>>]]

\* the k-th pruning of the call left its variable with no current value
EmptiedAt(k) ==
    cur_domain(CurdomAfter(k), startAssigned, pruneLog[k][1]) = <<>>

InGac == pc \in {"gac_loop", "gac_var", "gac_val"}

\* C11: prop_GAC returns False exactly when a pruning of the call emptied a
\* current domain; the call does nothing after that pruning, whose pair is
\* the last of the returned list, after all earlier prunings of the call.
C11_GacWipeoutStops ==
    /\ InGac => \A k \in 1..Len(pruneLog) : ~EmptiedAt(k)
    /\ Returned("GAC") =>
        /\ ~ret_ok <=> \E k \in 1..Len(pruneLog) : EmptiedAt(k)
        /\ ~ret_ok =>
            /\ ret_pruned = pruneLog
            /\ \A k \in 1..Len(pruneLog) : EmptiedAt(k) <=> k = Len(pruneLog)

\* a call that stopped at a wipeout after pruning another variable first
C11_Witness ==
    /\ Returned("GAC")
    /\ ~ret_ok
    /\ Len(ret_pruned) >= 2
    /\ ret_pruned[1][1] # ret_pruned[Len(ret_pruned)][1]

\* the constraints prop_FC(csp, newVar) has to forward-check, in the order
\* of the scan: those of newVar that had one unassigned variable at the call
Frontier(nv) ==
    SelectSeq(vars_to_cons[nv], LAMBDA c : get_n_unasgn(startAssigned, c) = 1)

\* the constraints forward-checked by the call so far, in order
Checked == [i \in 1..Len(fcLog) |-> fcLog[i][1]]

\* C12: prop_FC with a changed variable forward-checks the constraints of
\* that variable in order and stops at the first wipeout: a wipeout can only
\* be the last fccheck of the call, the call then returns False with all the
\* prunings made so far and leaves the later constraints unchecked; with no
\* wipeout it checks them all and returns True.
C12_FcStopsAtWipeout ==
    (Returned("FC") /\ argVar # None) =>
        /\ Checked = SubSeq(Frontier(argVar), 1, Len(fcLog))
        /\ \A i \in 1..(Len(fcLog) - 1) : fcLog[i][2] = "OK"
        /\ ret_ok <=> ~SomeWipeout
        /\ ret_ok => Len(fcLog) = Len(Frontier(argVar))
        /\ ret_pruned = pruneLog

\* prop_FC stopping at a wipeout with a constraint still unchecked
C12_Witness ==
    /\ Returned("FC")
    /\ argVar # None
    /\ ~ret_ok
    /\ ret_pruned # <<>>
    /\ Len(fcLog) < Len(Frontier(argVar))

\* C13: every prune_value(v, x) of a propagator call is executed on an
\* unassigned variable v while x is in v's current domain: x was not pruned
\* when the call started and no earlier pruning of the call removed it.
C13_NoDoublePruning ==
    \A k \in 1..Len(pruneLog) :
        LET v == pruneLog[k][1]
            x == pruneLog[k][2]
        IN  /\ ~is_assigned(startAssigned, v)
            /\ x \in Range(cur_domain(CurdomAfter(k - 1), startAssigned, v))

\* a call pruning from a variable that an earlier, unrestored call had
\* pruned already
C13_Witness ==
    /\ pc = "ret"
    /\ \E k \in 1..Len(pruneLog) : FALSE \in Range(startCurdom[pruneLog[k][1]])

\* the values of x's current domain, in domain order, with which
\* constraint c fails, the other variables of c being assigned
Failing(c, x) ==
    SelectSeq(cur_domain(curdom, assignedValue, x),
              LAMBDA d : ~check(c, assigned_vals(assign(assignedValue, x, d), c)))

\* the pairs a forward-checking call has collected so far
Ledger(p, f, rp) == IF p = "ret" THEN rp ELSE f.result_pruned

\* what one fccheck(c, x) does, seen as a step
FccheckStep(c, x) ==
    LET failing == Failing(c, x)
        result  == fcLog'[Len(fcLog')][2]
    IN  /\ get_unasgn_vars(assignedValue, c) = <<x>>
        /\ curdom' = [v \in AllVars |->
                        [i \in 1..Len(dom[v]) |->
                            /\ curdom[v][i]
                            /\ ~(v = x /\ dom[v][i] \in Range(failing))]]
        /\ Ledger(pc', frame', ret_pruned') =
               frame.result_pruned \o
               [i \in 1..Len(failing) |-> <<x, failing[i]>>]
        /\ result = "DWO" <=> cur_domain(curdom', assignedValue', x) = <<>>
        /\ result = "OK" <=> cur_domain(curdom', assignedValue', x) # <<>>
        /\ assignedValue' = assignedValue

\* C14: fccheck(constraint, x), x being the only unassigned variable of the
\* constraint, removes from x's current domain exactly the values with which
\* the constraint fails, hands them back in domain order, and reports "DWO"
\* exactly when x's current domain is empty afterwards, "OK" otherwise.
C14_FccheckExact ==
    [][Len(fcLog') = Len(fcLog) + 1 =>
          LET c == fcLog'[Len(fcLog')][1]
          IN  FccheckStep(c, get_unasgn_vars(assignedValue, c)[1])]_vars

\* one fccheck that pruned a value and left another
C14_Witness ==
    /\ Len(fcLog) = 1
    /\ fcLog[1][2] = "OK"
    /\ pruneLog # <<>>

NoDuplicates(s) == \A i, j \in 1..Len(s) : s[i] = s[j] => i = j

IsPrefix(s, t) == Len(s) <= Len(t) /\ s = SubSeq(t, 1, Len(s))

\* the CSP lists no constraint twice, neither as a whole nor for a variable
CollectionsDistinct ==
    /\ NoDuplicates(cons)
    /\ \A v \in AllVars : NoDuplicates(vars_to_cons[v])

\* one step of gac_enforce, seen from its queue
QueueStep ==
    /\ (pc = "gac_loop" /\ pc' = "gac_var") =>
           /\ frame'.curr_constraint = Head(frame.gac_q)
           /\ frame'.gac_q = Tail(frame.gac_q)
    /\ (pc \in {"gac_var", "gac_val"} /\ pc' \in {"gac_loop", "gac_var", "gac_val"}) =>
           IsPrefix(frame.gac_q, frame'.gac_q)
    /\ (pc = "gac_val" /\ pc' = "gac_val" /\ pruneLog' # pruneLog) =>
           /\ Range(vars_to_cons[frame.var]) \subseteq Range(frame'.gac_q)
           /\ frame.curr_constraint \in Range(frame'.gac_q)

\* C15: gac_enforce takes constraints from the front of its queue and adds
\* them at the back; the queue never holds a constraint twice, the CSP's
\* lists holding none twice; after a pruning of v that is no wipeout every
\* constraint of v, the one being processed included, is on the queue.
C15_QueueDiscipline ==
    /\ []((InGac /\ CollectionsDistinct) => NoDuplicates(frame.gac_q))
    /\ [][QueueStep]_vars

\* the constraint being processed is back on the queue, behind another
C15_Witness ==
    /\ pc = "gac_val"
    /\ pruneLog # <<>>
    /\ Len(frame.gac_q) >= 2
    /\ frame.gac_q[Len(frame.gac_q)] = frame.curr_constraint

\* the search driver propagating with prop_GAC only
NextGac ==
    \/ \E v \in AllVars : \E x \in Range(dom[v]) : DriverAssign(v, x)
    \/ \E nv \in AllVars \cup {None} : Call("GAC", nv)
    \/ GacLoop
    \/ GacVar
    \/ GacVal
    \/ DriverRestore

\* GacVal can be taken wherever the loop over the values stands
GacValEnabled == (pc = "gac_val") <=> ENABLED <<GacVal>>_vars

\* weak fairness of GacVal, with ENABLED <<GacVal>>_vars written as the
\* position it amounts to (GacValEnabled)
FairGacVal == []<>(pc # "gac_val") \/ []<><<GacVal>>_vars

\* a propagator call is synchronous: once gac_enforce has started, each of
\* its steps is taken
SpecFair ==
    /\ Init /\ [][NextGac]_vars
    /\ WF_vars(GacLoop) /\ WF_vars(GacVar) /\ FairGacVal

\* C16: every prop_GAC call terminates: the worklist loop of gac_enforce
\* comes to its return, with the queue empty or at a wipeout.
C16_GacTerminates == InGac ~> Returned("GAC")

\* gac_enforce taking a constraint from the queue a second time
C16_Witness ==
    /\ pc = "gac_var"
    /\ pruneLog # <<>>
    /\ \E k \in 1..Len(pruneLog) : pruneLog[k][1] \in Range(scope[frame.curr_constraint])
    /\ frame.gac_q = <<>>
    /\ Len(cons) >= 2
    /\ argVar = None

\* how many times the call has forward-checked constraint c
TimesChecked(c) == Cardinality({i \in 1..Len(fcLog) : fcLog[i][1] = c})

\* C17: in the pre-search call prop_FC(csp) every constraint that has
\* exactly one unassigned variable is forward-checked exactly once, and no
\* other constraint is forward-checked.
C17_FcPreSearchOnce ==
    (Returned("FC") /\ argVar = None) =>
        \A c \in AllCons :
            TimesChecked(c) = IF get_n_unasgn(startAssigned, c) = 1 THEN 1 ELSE 0

\* the board size of the CSP
BoardSize == Len(dom[1])

\* cells a and b are different cells of one row or of one column
SameLine(n, a, b) ==
    /\ a # b
    /\ \/ (a - 1) \div n = (b - 1) \div n
       \/ (a - 1) % n = (b - 1) % n

\* the cells of the rows and of the columns of the board
Lines(n) ==
    [i \in 1..n |-> {cell(n, i - 1, j) : j \in 0..(n - 1)}] \o
    [i \in 1..n |-> {cell(n, j, i - 1) : j \in 0..(n - 1)}]

\* g has one not-equal constraint for every two cells of a line
BinaryStructure(n, g) ==
    /\ \A c \in 1..Len(g.scope) :
           /\ Len(g.scope[c]) = 2
           /\ SameLine(n, g.scope[c][1], g.scope[c][2])
           /\ g.sat[c] = {<<i, j>> : i, j \in 1..n} \ {<<i, i>> : i \in 1..n}
    /\ \A a, b \in 1..(n * n) :
           SameLine(n, a, b) =>
               Cardinality({c \in 1..Len(g.scope) : Range(g.scope[c]) = {a, b}}) = 1

\* g has one all-different constraint for every row and every column
NaryStructure(n, g) ==
    /\ Len(g.scope) = 2 * n
    /\ \A c \in 1..Len(g.scope) :
           /\ Len(g.scope[c]) = n
           /\ g.sat[c] = {t \in [1..n -> 1..n] : \A i, j \in 1..n : t[i] = t[j] => i = j}
    /\ \A l \in 1..(2 * n) :
           Cardinality({c \in 1..Len(g.scope) : Range(g.scope[c]) = Lines(n)[l]}) =
           Cardinality({m \in 1..(2 * n) : Lines(n)[m] = Lines(n)[l]})

\* the assignment asg satisfies every constraint of g
SatisfiedBy(g, asg) ==
    \A c \in 1..Len(g.scope) :
        [i \in 1..Len(g.scope[c]) |-> asg[g.scope[c][i]]] \in g.sat[c]

Complete == \A v \in AllVars : is_assigned(assignedValue, v)

\* the board as built, before the first cell is filled in
NothingAssigned == \A v \in AllVars : ~is_assigned(assignedValue, v)

\* the assignment satisfies every constraint of the CSP
AllSatisfied == \A c \in AllCons : check(c, assigned_vals(assignedValue, c))

\* C18: binary_ne_grid(n) has exactly one constraint for every two cells of
\* a row or a column, satisfied by the ordered pairs of distinct values;
\* nary_ad_grid(n) has exactly one constraint for every row and column,
\* satisfied by the permutations of 1..n; a complete assignment satisfies the
\* constraints of the one if and only if it satisfies those of the other,
\* and the constraints of the CSP built.
C18_GridModelsAgree ==
    LET n == BoardSize
        b == binary_ne_grid(n)
        a == nary_ad_grid(n)
    IN  /\ NothingAssigned =>
               /\ BinaryStructure(n, b)
               /\ NaryStructure(n, a)
               /\ a.dom = b.dom
        /\ Complete =>
               /\ SatisfiedBy(b, assignedValue) <=> SatisfiedBy(a, assignedValue)
               /\ AllSatisfied <=> SatisfiedBy(a, assignedValue)

\* a board of the largest size filled in with a latin square, the CSP being
\* the one of the all-different constraints
C18_Witness ==
    /\ BoardSize = MaxBoard
    /\ Len(scope) = 2 * MaxBoard
    /\ Complete
    /\ AllSatisfied

\* prop_GAC(csp, V) has returned, after prop_FC(csp, V) had been run on the
\* same state and its prunings had been restored
GacAfterFc ==
    /\ Returned("GAC")
    /\ argVar # None
    /\ prevCall.prop = "FC"
    /\ prevCall.newVar = argVar
    /\ prevCall.restored

\* prop_GAC concludes what prop_FC concluded
GacCoversFc ==
    /\ ~prevCall.ok => ~ret_ok
    /\ (prevCall.ok /\ ret_ok) => Range(prevCall.pruned) \subseteq Range(ret_pruned)

\* when the call started every unassigned variable had a current value
NoEmptyDomainAtCall ==
    \A v \in AllVars :
        ~is_assigned(startAssigned, v) => TRUE \in Range(startCurdom[v])

\* C19 as stated: on every state and for every just-assigned V, prop_GAC
\* returns False when prop_FC does, and prunes every pair prop_FC prunes
\* when both return True.
C19_Original == GacAfterFc => GacCoversFc

\* C19: on every state in which each unassigned variable has a non-empty
\* current domain, and for every just-assigned V, prop_GAC(csp, V) returns
\* False when prop_FC(csp, V) does, and prunes every pair prop_FC prunes
\* when both return True.
C19_GacAtLeastFc == (GacAfterFc /\ NoEmptyDomainAtCall) => GacCoversFc

\* both return True, prop_FC having pruned and prop_GAC having pruned more
C19_Witness ==
    /\ GacAfterFc
    /\ NoEmptyDomainAtCall
    /\ prevCall.ok
    /\ ret_ok
    /\ prevCall.pruned # <<>>
    /\ Len(ret_pruned) > Len(prevCall.pruned)

====
